---- MODULE Spec2Model ----
(***************************************************************************)
(* Model of plugins/callback/stats.py: the openstack.kolla.stats callback  *)
(* plugin.  The recorder (CallbackModule) keeps a configured path and a    *)
(* no_hosts_remaining flag; v2_playbook_on_stats walks the processed hosts *)
(* in sorted order, builds a Stats record, serializes it and writes it to  *)
(* the configured path through write_stats.                                *)
(*                                                                         *)
(* The external collaborators are modelled by their outcomes: the runtime's*)
(* AggregateStats (processed hosts, in the dictionary's enumeration order, *)
(* and summarize()), makedirs_safe (success, or an exception of some       *)
(* class), open/write (success, or OSError with some prefix of the buffer  *)
(* on disk), and the display's error channel (a trace of events).          *)
(***************************************************************************)
EXTENDS Naturals, Sequences, FiniteSets

\* ---------------------------------------------------------------- bounds

\* Number of host names the runtime may have processed.
MaxHosts == 2
\* The non-zero task count a host summary may report (0 is always possible).
MaxCount == 2

\* ------------------------------------------------------------ host names

\* Host names are strings: sequences of character codes.
AllNames == << <<2>>, <<1, 2>>, <<1>>, <<2, 1>>, <<1, 1>>, <<2, 2>> >>

HostNames == {AllNames[k] : k \in 1..(IF MaxHosts < Len(AllNames) THEN MaxHosts ELSE Len(AllNames))}

Counts == {0, MaxCount}

\* Python's str comparison: lexicographic by code point, a proper prefix first.
StrLess(a, b) ==
    \E k \in 1..(Len(a) + 1) :
        /\ \A j \in 1..(k - 1) : j <= Len(b) /\ a[j] = b[j]
        /\ \/ k = Len(a) + 1 /\ Len(b) >= k
           \/ k <= Len(a) /\ k <= Len(b) /\ a[k] < b[k]

\* The sequences that enumerate the set S once each.
Perms(S) ==
    {q \in [1..Cardinality(S) -> S] : \A a, b \in 1..Cardinality(S) : a # b => q[a] # q[b]}

RECURSIVE Insert(_, _)
Insert(x, q) ==
    IF q = <<>> THEN <<x>>
    ELSE IF StrLess(x, Head(q)) THEN <<x>> \o q
    ELSE <<Head(q)>> \o Insert(x, Tail(q))

RECURSIVE Sort(_)
Sort(q) == IF q = <<>> THEN <<>> ELSE Insert(Head(q), Sort(Tail(q)))

\* hosts = sorted(stats.processed.keys())
UnsortedHosts(keys) == keys
SortedHosts(keys) == Sort(keys)

\* ------------------------------------------------------------ the record

\* Stats.__init__ with the defaults of v2_playbook_on_stats' call.
NewStats(flag) ==
    [num_failures |-> 0, num_unreachable |-> 0, failures |-> <<>>,
     unreachable |-> <<>>, no_hosts_remaining |-> flag]

NoStats == [num_failures |-> 0, num_unreachable |-> 0, failures |-> <<>>,
            unreachable |-> <<>>, no_hosts_remaining |-> FALSE]

\* s = Stats(no_hosts_remaining=self.no_hosts_remaining)
ReusedStats(prev, flag) ==
    [prev EXCEPT !.no_hosts_remaining = flag]
FreshStats(prev, flag) == NewStats(flag)

\* One iteration of the loop over the hosts, for host h with summary t.
ClassifyAddCount(rec, h, t) ==
    LET a == IF t.failures # 0
             THEN [rec EXCEPT !.num_failures = @ + t.failures,
                              !.failures = Append(@, h)]
             ELSE rec
    IN IF t.unreachable # 0
       THEN [a EXCEPT !.num_unreachable = @ + t.unreachable,
                      !.unreachable = Append(@, h)]
       ELSE a
ClassifyElif(rec, h, t) ==
    IF t.failures # 0
    THEN [rec EXCEPT !.num_failures = @ + 1, !.failures = Append(@, h)]
    ELSE IF t.unreachable # 0
    THEN [rec EXCEPT !.num_unreachable = @ + 1, !.unreachable = Append(@, h)]
    ELSE rec
Classify(rec, h, t) ==
    LET a == IF t.failures # 0
             THEN [rec EXCEPT !.num_failures = @ + 1, !.failures = Append(@, h)]
             ELSE rec
    IN IF t.unreachable # 0
       THEN [a EXCEPT !.num_unreachable = @ + 1, !.unreachable = Append(@, h)]
       ELSE a

\* json.dumps of a bool.
JsonBool(b) == IF b THEN "true" ELSE "false"

\* Stats.to_json followed by to_bytes: the object's members in the order
\* __init__ assigns them, each a (key, rendered value) token.
to_json(rec) ==
    << <<"num_failures", rec.num_failures>>,
       <<"num_unreachable", rec.num_unreachable>>,
       <<"failures", rec.failures>>,
       <<"unreachable", rec.unreachable>>,
       <<"no_hosts_remaining", JsonBool(rec.no_hosts_remaining)>> >>

\* ------------------------------------------------------------ file system

\* Paths are sequences of components; the last one is the file name.
DefaultPath == <<"kolla_stats", "kolla_stats.json">>
OtherPath == <<"alt", "kolla_stats.json">>
Paths == {DefaultPath, OtherPath}

\* os.path.dirname
Dirname(p) == SubSeq(p, 1, Len(p) - 1)

NoFile == << <<"absent", 0>> >>
OldToken == <<"old", 0>>
OldShort == <<OldToken>>
OldLong == <<OldToken, OldToken, OldToken, OldToken, OldToken, OldToken, OldToken>>
OldContents == {NoFile, OldShort, OldLong}

\* open(path, 'wb+'): creates the file or truncates it to length zero.
OpenKeep(content) == IF content = NoFile THEN <<>> ELSE content
OpenTruncate(content) == <<>>

\* fd.write(buf) from offset 0, of which the first k tokens reach the file.
WriteAt(content, b, k) ==
    SubSeq(b, 1, k) \o SubSeq(content, k + 1, Len(content))

IsPrefix(p, q) == Len(p) <= Len(q) /\ SubSeq(q, 1, Len(p)) = p

\* ------------------------------------------------------------------ state

VARIABLES
    path,                \* self.path
    no_hosts_remaining,  \* self.no_hosts_remaining
    fs,                  \* content of the file at each path
    dirs,                \* directories that exist
    stats,               \* the runtime's results: host -> summarize(host)
    pc,                  \* position of the callback in progress
    keys,                \* stats.processed.keys() as enumerated, while the pass runs
    hosts,               \* local hosts of v2_playbook_on_stats
    i,                   \* index of the next host of the loop
    s,                   \* local s of v2_playbook_on_stats
    buf,                 \* argument of write_stats, after to_bytes
    events,              \* what the call in progress did to its collaborators
    exc,                 \* class of the exception the call raised, or "none"
    pre,                 \* fs as it was when the latest callback began
    calls,               \* v2_playbook_on_stats calls so far: 0, 1, 2 or more
    marks                \* no-hosts-remaining calls since set_options: 0, 1, 2 or more

vars == <<path, no_hosts_remaining, fs, dirs, stats, pc, keys, hosts, i, s, buf,
          events, exc, pre, calls, marks>>

\* summarize(h) as far as the plugin reads it.
Summaries == [failures : Counts, unreachable : Counts]

StatsSpace == UNION {[H -> Summaries] : H \in SUBSET HostNames}

\* The call counters distinguish no call, one call and several calls.
Saturate(n) == IF n < 2 THEN n + 1 ELSE n

\* The runtime dispatches one callback at a time: a new one starts only when
\* none is in progress.
Idle == pc \in {"ready", "done", "raised"}

Init ==
    /\ path \in Paths
    /\ no_hosts_remaining = FALSE
    /\ \E c \in OldContents : fs = [p \in Paths |-> c]
    /\ dirs = {Dirname(p) : p \in {q \in Paths : fs[q] # NoFile}}
    /\ stats \in StatsSpace
    /\ pc = "ready"
    /\ keys = <<>>
    /\ hosts = <<>>
    /\ i = 1
    /\ s = NoStats
    /\ buf = <<>>
    /\ events = <<>>
    /\ exc = "none"
    /\ pre = fs
    /\ calls = 0
    /\ marks = 0

\* The locals of a call that returned are gone when the next callback runs.
DropFrame ==
    /\ keys' = <<>>
    /\ hosts' = <<>>
    /\ i' = 1
    /\ s' = NoStats
    /\ buf' = <<>>
    /\ events' = <<>>
    /\ exc' = "none"
    /\ pre' = fs

\* ---------------------------------------------------------------- actions

\* CallbackModule.set_options
set_options ==
    /\ Idle
    /\ \E p \in Paths : path' = p
    /\ no_hosts_remaining' = FALSE
    /\ marks' = 0
    /\ pc' = "ready"
    /\ DropFrame
    /\ UNCHANGED <<fs, dirs, stats, calls>>

\* self.no_hosts_remaining = True
ToggleFlag(flag) == ~flag
MarkFlag(flag) == TRUE

\* CallbackModule.v2_playbook_on_no_hosts_remaining
v2_playbook_on_no_hosts_remaining ==
    /\ Idle
    /\ no_hosts_remaining' = MarkFlag(no_hosts_remaining)
    /\ marks' = Saturate(marks)
    /\ pc' = "ready"
    /\ DropFrame
    /\ UNCHANGED <<path, fs, dirs, stats, calls>>

\* v2_playbook_on_stats, lines 119-120: the record and the sorted host list.
StatsBegin ==
    /\ Idle
    /\ calls' = Saturate(calls)
    /\ \E q \in Perms(DOMAIN stats) :
          /\ keys' = q
          /\ hosts' = SortedHosts(q)
    /\ s' = FreshStats(s, no_hosts_remaining)
    /\ i' = 1
    /\ buf' = <<>>
    /\ events' = <<>>
    /\ exc' = "none"
    /\ pre' = fs
    /\ pc' = "loop"
    /\ UNCHANGED <<path, no_hosts_remaining, fs, dirs, stats, marks>>

\* v2_playbook_on_stats, lines 121-128: one iteration of the loop.
StatsLoop ==
    /\ pc = "loop"
    /\ i <= Len(hosts)
    /\ s' = Classify(s, hosts[i], stats[hosts[i]])
    /\ i' = i + 1
    /\ UNCHANGED <<path, no_hosts_remaining, fs, dirs, stats, pc, keys, hosts, buf,
                   events, exc, pre, calls, marks>>

\* v2_playbook_on_stats, line 129, and write_stats, lines 92-93.
StatsDump ==
    /\ pc = "loop"
    /\ i > Len(hosts)
    /\ buf' = to_json(s)
    /\ keys' = <<>>
    /\ pc' = "makedirs"
    /\ UNCHANGED <<path, no_hosts_remaining, fs, dirs, stats, hosts, i, s,
                   events, exc, pre, calls, marks>>

\* The classes both except clauses of write_stats catch.
Caught(cls) == cls \in {"OSError", "IOError"}

\* What an exception of class cls raised by step does in a try block of
\* write_stats: the handler reports it and re-raises; any other class
\* propagates past the handler.
Raise(step, cls) ==
    /\ events' = events \o <<step>>
                        \o (IF Caught(cls) THEN <<"display.error">> ELSE <<>>)
                        \o <<"raise">>
    /\ exc' = cls
    /\ pc' = "raised"

\* The classes of exception makedirs_safe raises when it cannot create the
\* directory: ansible.utils.path.makedirs_safe wraps the OSError of
\* os.makedirs in an AnsibleError.
MakedirsErrors == {"OSError", "AnsibleError"}

\* write_stats, line 95: makedirs_safe(directory) returns.
MakedirsOk ==
    /\ pc = "makedirs"
    /\ dirs' = dirs \cup {Dirname(path)}
    /\ events' = Append(events, "makedirs")
    /\ pc' = "open"
    /\ UNCHANGED <<path, no_hosts_remaining, fs, stats, keys, hosts, i, s, buf,
                   exc, pre, calls, marks>>

\* write_stats, lines 95-100: makedirs_safe(directory) raises.
MakedirsFail ==
    /\ pc = "makedirs"
    /\ \E cls \in MakedirsErrors : Raise("makedirs", cls)
    /\ UNCHANGED <<path, no_hosts_remaining, fs, dirs, stats, keys, hosts, i, s,
                   buf, pre, calls, marks>>

\* write_stats, line 104: open(path, 'wb+') returns.
OpenOk ==
    /\ pc = "open"
    /\ Dirname(path) \in dirs
    /\ fs' = [fs EXCEPT ![path] = OpenTruncate(@)]
    /\ events' = Append(events, "open")
    /\ pc' = "write"
    /\ UNCHANGED <<path, no_hosts_remaining, dirs, stats, keys, hosts, i, s, buf,
                   exc, pre, calls, marks>>

\* write_stats, lines 104-109: open raises OSError.
OpenFail ==
    /\ pc = "open"
    /\ Raise("open", "OSError")
    /\ UNCHANGED <<path, no_hosts_remaining, fs, dirs, stats, keys, hosts, i, s,
                   buf, pre, calls, marks>>

\* write_stats, line 105: the whole buffer is written and the file closed.
WriteOk ==
    /\ pc = "write"
    /\ fs' = [fs EXCEPT ![path] = WriteAt(@, buf, Len(buf))]
    /\ events' = Append(events, "write")
    /\ pc' = "done"
    /\ UNCHANGED <<path, no_hosts_remaining, dirs, stats, keys, hosts, i, s, buf,
                   exc, pre, calls, marks>>

\* write_stats, lines 105-109: the write, the flush or the close raises
\* OSError after k tokens of the buffer reached the file.
WriteFail ==
    /\ pc = "write"
    /\ \E k \in 0..Len(buf) : fs' = [fs EXCEPT ![path] = WriteAt(@, buf, k)]
    /\ Raise("write", "OSError")
    /\ UNCHANGED <<path, no_hosts_remaining, dirs, stats, keys, hosts, i, s, buf,
                   pre, calls, marks>>

Next ==
    \/ set_options
    \/ v2_playbook_on_no_hosts_remaining
    \/ StatsBegin
    \/ StatsLoop
    \/ StatsDump
    \/ MakedirsOk
    \/ MakedirsFail
    \/ OpenOk
    \/ OpenFail
    \/ WriteOk
    \/ WriteFail

Spec == Init /\ [][Next]_vars

\* ------------------------------------------------------------ properties

InSeq(x, q) == \E k \in 1..Len(q) : q[k] = x

Count(x, q) == Cardinality({k \in 1..Len(q) : q[k] = x})

\* Position of the first x in q, or 0.
IndexOf(x, q) ==
    IF InSeq(x, q) THEN CHOOSE k \in 1..Len(q) : q[k] = x /\ \A j \in 1..(k - 1) : q[j] # x
    ELSE 0

Ascending(q) == \A a, b \in 1..Len(q) : a < b => StrLess(q[a], q[b])

\* A v2_playbook_on_stats call is in progress or was the latest callback.
InStatsCall == pc # "ready"

\* The pass over the hosts is over.
PassDone == InStatsCall /\ i > Len(hosts)

\* The record the pass builds from the enumeration q of the processed hosts.
RECURSIVE Pass(_, _, _)
Pass(rec, hs, k) ==
    IF k > Len(hs) THEN rec
    ELSE Pass(Classify(rec, hs[k], stats[hs[k]]), hs, k + 1)

BuildFrom(q) == Pass(NewStats(no_hosts_remaining), SortedHosts(q), 1)

\* Value of the field key in a serialized record.
Field(content, key) ==
    LET k == CHOOSE j \in 1..Len(content) : content[j][1] = key IN content[k][2]

IsRecord(content) ==
    /\ Len(content) = 5
    /\ content[1][1] = "num_failures"
    /\ content[5][1] = "no_hosts_remaining"

\* C1: in every state of a v2_playbook_on_stats call, after each iteration of
\* the pass and in the record that is serialized, num_failures is the length
\* of failures and num_unreachable the length of unreachable.
C1_CountsMatchLists ==
    InStatsCall =>
        /\ s.num_failures = Len(s.failures)
        /\ s.num_unreachable = Len(s.unreachable)
        /\ buf # <<>> =>
              /\ Field(buf, "num_failures") = Len(Field(buf, "failures"))
              /\ Field(buf, "num_unreachable") = Len(Field(buf, "unreachable"))

\* A state in the middle of the pass, after a host with failures and an
\* unreachable host were counted and before the last host.
C1_Witness ==
    /\ pc = "loop"
    /\ i > 1
    /\ i <= Len(hosts)
    /\ s.num_failures >= 1
    /\ s.num_unreachable >= 1

\* C2: once the pass is over, failures and unreachable are in ascending
\* lexicographic order of host name, and every enumeration order of the
\* processed hosts yields the record that was built and serialized.
C2_SortedAndOrderIndependent ==
    PassDone =>
        /\ Ascending(s.failures)
        /\ Ascending(s.unreachable)
        /\ \A q \in Perms(DOMAIN stats) : BuildFrom(q) = s
        /\ buf # <<>> => \A q \in Perms(DOMAIN stats) : to_json(BuildFrom(q)) = buf

\* The pass is over for an enumeration that was not in ascending order, with
\* two hosts in each list.
C2_Witness ==
    /\ pc = "loop"
    /\ i > Len(hosts)
    /\ keys # hosts
    /\ Len(s.failures) >= 2
    /\ Len(s.unreachable) >= 2

\* C3: once the pass is over, a host is in failures exactly when its summary
\* reports failures and in unreachable exactly when its summary reports
\* unreachable, at most once in each list; the lists hold processed hosts only.
C3_ClassificationExact ==
    PassDone =>
        /\ \A h \in DOMAIN stats :
              /\ InSeq(h, s.failures) <=> stats[h].failures # 0
              /\ InSeq(h, s.unreachable) <=> stats[h].unreachable # 0
              /\ Count(h, s.failures) <= 1
              /\ Count(h, s.unreachable) <= 1
        /\ \A k \in 1..Len(s.failures) : s.failures[k] \in DOMAIN stats
        /\ \A k \in 1..Len(s.unreachable) : s.unreachable[k] \in DOMAIN stats

\* The pass is over with one host in both lists and one host in neither.
C3_Witness ==
    /\ PassDone
    /\ \E h \in DOMAIN stats : InSeq(h, s.failures) /\ InSeq(h, s.unreachable)
    /\ \E h \in DOMAIN stats : ~InSeq(h, s.failures) /\ ~InSeq(h, s.unreachable)

\* C4: the flag is true exactly when v2_playbook_on_no_hosts_remaining was
\* called since set_options (so it starts false and only set_options clears
\* it), the record of a call carries that value, and so does the file a call
\* wrote.
C4_FlagTracksSignal ==
    /\ no_hosts_remaining = (marks > 0)
    /\ InStatsCall => s.no_hosts_remaining = (marks > 0)
    /\ pc = "done" => Field(fs[path], "no_hosts_remaining") = JsonBool(marks > 0)

\* A call wrote true after the signal, having written false before it.
C4_Witness ==
    /\ pc = "done"
    /\ marks > 0
    /\ IsRecord(pre[path])
    /\ Field(pre[path], "no_hosts_remaining") = "false"
    /\ Field(fs[path], "no_hosts_remaining") = "true"

\* The step of write_stats that raised: the last event that is neither the
\* report nor the raise.
FailedStep ==
    LET steps == SelectSeq(events, LAMBDA e : e \notin {"display.error", "raise"})
    IN IF pc = "raised" /\ steps # <<>> THEN steps[Len(steps)] ELSE "none"

\* open returned in the call: the write step was reached.
Opened == InSeq("write", events)

\* C5: when makedirs_safe fails, the error is reported once on the display
\* before it is raised, the file is never opened and every file is as it was
\* before the call.
C5_DirFailureReportedFileUntouched ==
    FailedStep = "makedirs" =>
        /\ Count("display.error", events) = 1
        /\ events[Len(events)] = "raise"
        /\ IndexOf("display.error", events) < IndexOf("raise", events)
        /\ ~InSeq("open", events)
        /\ fs = pre

\* C6: a call that fails in makedirs_safe, open or write reports the failure
\* exactly once on the display and then raises; a call never attempts
\* makedirs_safe, open or write more than once, and a call that returned
\* normally reported and raised nothing.
C6_FailureReportedOnceThenRaised ==
    /\ pc = "raised" =>
          /\ Count("display.error", events) = 1
          /\ Count("raise", events) = 1
          /\ IndexOf("display.error", events) < IndexOf("raise", events)
          /\ exc # "none"
    /\ InStatsCall =>
          /\ Count("makedirs", events) <= 1
          /\ Count("open", events) <= 1
          /\ Count("write", events) <= 1
    /\ pc = "done" => ~InSeq("display.error", events) /\ ~InSeq("raise", events)

\* C7: after a call that returned normally the file at self.path is exactly
\* the serialization of the call's record, whatever it held before, and no
\* other file changed.
C7_FileIsExactlyTheRecord ==
    pc = "done" =>
        /\ fs[path] = to_json(s)
        /\ \A p \in Paths \ {path} : fs[p] = pre[p]

\* A call returned normally over a file that was longer than the record.
C7_Witness ==
    /\ pc = "done"
    /\ pre[path] = OldLong
    /\ Len(fs[path]) < Len(pre[path])

\* C8 as stated: after a call that raised, the file is unchanged, or (after
\* open returned) empty or a prefix of the serialization; it never holds the
\* complete new record.
C8_RaisedNeverLeavesCompleteRecord ==
    pc = "raised" =>
        /\ \/ fs[path] = pre[path]
           \/ Opened /\ IsPrefix(fs[path], buf)
        /\ fs[path] # buf

\* C8 amended: after a call that raised, every file is unchanged when open
\* did not return, and otherwise the file at self.path is a prefix of the
\* serialization (empty, partial or whole) and no other file changed.  The
\* file is never a mix of old and new content.
C8_RaisedLeavesOldOrPrefix ==
    pc = "raised" =>
        /\ ~Opened => fs = pre
        /\ Opened => IsPrefix(fs[path], buf)
        /\ \A p \in Paths \ {path} : fs[p] = pre[p]

\* A call raised after writing part of the record over a longer file.
C8_Witness ==
    /\ pc = "raised"
    /\ Opened
    /\ pre[path] = OldLong
    /\ Len(fs[path]) > 0
    /\ Len(fs[path]) < Len(buf)

\* C9: a v2_playbook_on_no_hosts_remaining call leaves the flag true and
\* leaves the path and the files alone; when the flag is already true the
\* recorder is left as it was; the record of a following call carries true
\* however many times the signal was given.
C9_MarkIdempotent ==
    /\ [][v2_playbook_on_no_hosts_remaining =>
            /\ no_hosts_remaining' = TRUE
            /\ UNCHANGED <<path, fs, dirs, stats>>
            /\ no_hosts_remaining => UNCHANGED <<path, no_hosts_remaining>>]_vars
    /\ [](InStatsCall /\ marks >= 1 => s.no_hosts_remaining = TRUE)

\* A call returned normally after the signal was given twice or more.
C9_Witness ==
    /\ pc = "done"
    /\ marks = 2
    /\ Field(fs[path], "no_hosts_remaining") = "true"

\* C10: a call that returns normally over a file that holds the record an
\* earlier call wrote for the same flag leaves the same content; no step of
\* v2_playbook_on_stats changes the flag or the path.
C10_FreshRecordEachCall ==
    /\ [](pc = "done" /\ IsRecord(pre[path])
            /\ Field(pre[path], "no_hosts_remaining") = JsonBool(no_hosts_remaining)
          => fs[path] = pre[path])
    /\ [][pc' # "ready" => UNCHANGED <<path, no_hosts_remaining>>]_vars

\* A second call returned normally over the file the first one wrote, with
\* hosts in both lists.
C10_Witness ==
    /\ pc = "done"
    /\ calls = 2
    /\ IsRecord(pre[path])
    /\ fs[path] = pre[path]
    /\ s.num_failures >= 1
    /\ s.num_unreachable >= 1

====
